---- MODULE Spec2Model ----
(***************************************************************************)
(* Model of the arithmetic-expression front end of jerarquia-de-operaciones *)
(* (src/number/lexer.ts, number.ts, parser.ts, util.ts): the character     *)
(* level Lexer, the Parser as a step machine with an explicit call stack,   *)
(* and the Number tree with its evaluation and rendering.                   *)
(*                                                                         *)
(* A string is a sequence of one-character strings.  The sentinel the      *)
(* lexer stores in `char` at the end of the input, the three-character     *)
(* string 'EOF', is the single symbol "EOF"; String.fromCharCode(0) is the  *)
(* symbol "NUL"; the empty string that charAt returns out of range is "".   *)
(*                                                                         *)
(* A JavaScript number is a record [k, s, n, d]: k = "fin" is the rational  *)
(* s * n / d in lowest terms (s = -1, n = 0 is the negative zero), "inf" is *)
(* the infinity of sign s, "nan" is NaN.  Rounding and overflow of the      *)
(* double format are not modelled.                                          *)
(***************************************************************************)
EXTENDS Integers, Sequences, FiniteSets, TLC

VARIABLES
  expr,       \* the fixture the run starts from: a text, a written expression or a Number tree
  input,      \* Lexer.input
  lexer,      \* Lexer fields: position, readPosition, char, line
  tokens,     \* the tokens a client loop has collected from Lexer.nextToken
  token,      \* Parser.token
  peekToken,  \* Parser.peekToken
  last,       \* Parser.last
  stack,      \* the active calls of the parser, innermost last
  ret,        \* the value the call that just ended returned
  status,     \* "tree", "new", "lexing", "running", "returned", "threw"
  app         \* App: its state hooks, its effects' dependencies, the browser's intervals

vars == <<expr, input, lexer, tokens, token, peekToken, last, stack, ret, status, app>>

\* ------------------------------------------------------------ bounds
MaxLen == 4        \* longest free text over TextAlphabet
MaxSize == 5       \* most number literals and groups, together, in a written expression
MaxLeaves == 4     \* most leaves of a Number tree fixture
MaxLexLen == 4     \* longest free text over LexAlphabet
MaxEOF == 2        \* end-of-input tokens a lexer client asks for
MaxLevel == 4      \* deepest level getLevel is asked for
MaxDepth == 3      \* deepest tree the App is given
MaxSolves == 3     \* most clicks on Resolver that start an interval
MaxBelow == 2      \* how far below zero a step is followed

\* ------------------------------------------------------------ numbers
NaN == [k |-> "nan", s |-> 1, n |-> 0, d |-> 0]
Infinity(sg) == [k |-> "inf", s |-> sg, n |-> 0, d |-> 0]

RECURSIVE GCD(_, _)
GCD(a, b) == IF b = 0 THEN a ELSE GCD(b, a % b)

\* The finite number sg * num / den, in lowest terms.
Fin(sg, num, den) ==
  LET g == GCD(num, den)
  IN  [k |-> "fin", s |-> sg, n |-> num \div g, d |-> den \div g]

Num(i) == IF i < 0 THEN Fin(-1, -i, 1) ELSE Fin(1, i, 1)

IsNaN(a) == a.k = "nan"
IsZero(a) == a.k = "fin" /\ a.n = 0
Neg(a) == IF a.k = "nan" THEN a ELSE [a EXCEPT !.s = -a.s]

\* a + b of two doubles.
Plus(a, b) ==
  IF a.k = "nan" \/ b.k = "nan" THEN NaN
  ELSE IF a.k = "inf" /\ b.k = "inf" THEN (IF a.s = b.s THEN a ELSE NaN)
  ELSE IF a.k = "inf" THEN a
  ELSE IF b.k = "inf" THEN b
  ELSE LET x == a.s * a.n * b.d + b.s * b.n * a.d
       IN  IF x = 0 THEN Fin(IF a.s = -1 /\ b.s = -1 THEN -1 ELSE 1, 0, 1)
           ELSE IF x < 0 THEN Fin(-1, -x, a.d * b.d)
           ELSE Fin(1, x, a.d * b.d)

\* a - b
Minus(a, b) == Plus(a, Neg(b))

\* a * b
Times(a, b) ==
  IF a.k = "nan" \/ b.k = "nan" THEN NaN
  ELSE IF (a.k = "inf" /\ IsZero(b)) \/ (IsZero(a) /\ b.k = "inf") THEN NaN
  ELSE IF a.k = "inf" \/ b.k = "inf" THEN Infinity(a.s * b.s)
  ELSE Fin(a.s * b.s, a.n * b.n, a.d * b.d)

\* a / b
Divide(a, b) ==
  IF a.k = "nan" \/ b.k = "nan" THEN NaN
  ELSE IF (a.k = "inf" /\ b.k = "inf") \/ (IsZero(a) /\ IsZero(b)) THEN NaN
  ELSE IF a.k = "inf" THEN Infinity(a.s * b.s)
  ELSE IF b.k = "inf" THEN Fin(a.s * b.s, 0, 1)
  ELSE IF IsZero(b) THEN Infinity(a.s * b.s)
  ELSE Fin(a.s * b.s, a.n * b.d, a.d * b.n)

\* ------------------------------------------------------------ characters
Digits == {"0", "1", "2", "3", "4", "5", "6", "7", "8", "9"}

DigitValue(c) ==
  CASE c = "0" -> 0 [] c = "1" -> 1 [] c = "2" -> 2 [] c = "3" -> 3 [] c = "4" -> 4
    [] c = "5" -> 5 [] c = "6" -> 6 [] c = "7" -> 7 [] c = "8" -> 8 [] c = "9" -> 9

DigitChar(i) ==
  CASE i = 0 -> "0" [] i = 1 -> "1" [] i = 2 -> "2" [] i = 3 -> "3" [] i = 4 -> "4"
    [] i = 5 -> "5" [] i = 6 -> "6" [] i = 7 -> "7" [] i = 8 -> "8" [] i = 9 -> "9"

\* The characters Number() strips from both ends of a string (those of the alphabets used here).
StrWhiteSpace == {" ", "\t", "\n", "\r"}

RECURSIVE TrimStart(_)
TrimStart(str) ==
  IF str # <<>> /\ Head(str) \in StrWhiteSpace THEN TrimStart(Tail(str)) ELSE str

RECURSIVE TrimEnd(_)
TrimEnd(str) ==
  IF str # <<>> /\ str[Len(str)] \in StrWhiteSpace
  THEN TrimEnd(SubSeq(str, 1, Len(str) - 1)) ELSE str

RECURSIVE Pow10(_)
Pow10(e) == IF e = 0 THEN 1 ELSE 10 * Pow10(e - 1)

\* The natural number a string of decimal digits writes (0 for the empty string).
RECURSIVE DigitsValue(_)
DigitsValue(ds) ==
  IF ds = <<>> THEN 0
  ELSE 10 * DigitsValue(SubSeq(ds, 1, Len(ds) - 1)) + DigitValue(ds[Len(ds)])

\* Number(str) of JavaScript on strings of digits, signs, points, white space and
\* other symbols: white space is trimmed, the empty string is 0, an optionally
\* signed decimal literal (digits, at most one point, at least one digit) is
\* its value, anything else is NaN.  (Exponents, hex/octal/binary literals and
\* the word Infinity need letters, which no alphabet of the model holds
\* except as symbols that make the string NaN.)
DecimalParts(sg, whole, frac) ==
  IF \E i \in 1..Len(frac) : frac[i] = "." THEN NaN
  ELSE IF Len(whole) + Len(frac) = 0 THEN NaN
  ELSE Fin(sg, DigitsValue(whole) * Pow10(Len(frac)) + DigitsValue(frac), Pow10(Len(frac)))

\* The index of the first point of body, Len(body) + 1 when it has none.
RECURSIVE PointIndex(_, _)
PointIndex(body, i) ==
  IF i > Len(body) \/ body[i] = "." THEN i ELSE PointIndex(body, i + 1)

DecimalAt(sg, body, p) ==
  DecimalParts(sg, SubSeq(body, 1, p - 1), SubSeq(body, p + 1, Len(body)))

DecimalLiteral(sg, body) ==
  IF \E i \in 1..Len(body) : body[i] \notin Digits \cup {"."} THEN NaN
  ELSE DecimalAt(sg, body, PointIndex(body, 1))

TrimmedToNumber(t) ==
  IF t = <<>> THEN Num(0)
  ELSE IF Head(t) = "-" THEN DecimalLiteral(-1, Tail(t))
  ELSE IF Head(t) = "+" THEN DecimalLiteral(1, Tail(t))
  ELSE DecimalLiteral(1, t)

ToNumber(str) == TrimmedToNumber(TrimEnd(TrimStart(str)))

\* The decimal digits of a natural number.
RECURSIVE NatToString(_)
NatToString(i) ==
  IF i < 10 THEN <<DigitChar(i)>> ELSE Append(NatToString(i \div 10), DigitChar(i % 10))

\* `${a}` of a number: the integers and the three special values (no fixture
\* holds a fraction as a leaf's value); both zeros print as 0.
NumberToString(a) ==
  CASE a.k = "nan" -> <<"N", "a", "N">>
    [] a.k = "inf" ->
         (IF a.s = -1 THEN <<"-">> ELSE <<>>) \o <<"I", "n", "f", "i", "n", "i", "t", "y">>
    [] a.k = "fin" /\ a.d = 1 ->
         (IF a.s = -1 /\ a.n # 0 THEN <<"-">> ELSE <<>>) \o NatToString(a.n)

\* src/number/util.ts: isNumber
isNumber(v) == ~IsNaN(ToNumber(v)) /\ v # <<>>

\* ------------------------------------------------------------ lexer
undefined == "undefined"

\* String.prototype.charAt: the empty string out of range.
charAt(str, i) == IF i >= 0 /\ i < Len(str) THEN str[i + 1] ELSE ""

\* String.prototype.slice(from, to) with 0 <= from.
slice(str, from, to) == SubSeq(str, from + 1, IF to < Len(str) THEN to ELSE Len(str))

OneCharTokens == {"(", "[", "{", ")", "]", "}", "+", "-", "*", "/", "=", "<", ">", "~"}

\* TokenString.get(v): the token type a string names, `undefined` for any other.
TokenString(v) ==
  IF Len(v) = 1 /\ v[1] \in OneCharTokens \cup {"EOF"} THEN v[1]
  ELSE IF v = <<"<", "=">> THEN "<="
  ELSE IF v = <<">", "=">> THEN ">="
  ELSE undefined

ComparationSymbols == {"=", "<", ">", "~"}

\* readChar with this.readPosition > this.input.length as its test of the end.
readCharPastEnd(text, l) ==
  [l EXCEPT !.char = IF l.readPosition > Len(text) THEN "EOF"
                     ELSE charAt(text, l.readPosition),
            !.position = l.readPosition,
            !.readPosition = l.readPosition + 1]

readChar(text, l) ==
  [l EXCEPT !.char = IF l.readPosition >= Len(text) THEN "EOF"
                     ELSE charAt(text, l.readPosition),
            !.position = l.readPosition,
            !.readPosition = l.readPosition + 1]

peekChar(text, l) ==
  IF l.readPosition >= Len(text) THEN "EOF" ELSE charAt(text, l.readPosition)

lastChar(text, l) ==
  IF l.position = 0 THEN "NUL" ELSE charAt(text, l.position - 1)

\* new Lexer(expression)
NewLexer(text) ==
  readChar(text, [position |-> 0, readPosition |-> 0, char |-> "NUL", line |-> 0])

\* readComparation without its loop: no character after the first is read.
readComparationOneChar(text, l) == l

RECURSIVE readComparationLoop(_, _)
readComparationLoop(text, l) ==
  IF TokenString(<<peekChar(text, l)>>) \in ComparationSymbols
  THEN readComparationLoop(text, readChar(text, l))
  ELSE l

\* this.input.slice(position, this.readPosition), with the lexer m the loop left
SliceTo(text, position, m) ==
  [lexer |-> m, value |-> slice(text, position, m.readPosition)]

readComparation(text, l) == SliceTo(text, l.position, readComparationLoop(text, l))

isSignedNumber(text, l) ==
  /\ l.char \in {"+", "-"}
  /\ isNumber(<<peekChar(text, l)>>)
  /\ ~isNumber(<<lastChar(text, l)>>)

RECURSIVE readNumberLoop(_, _)
readNumberLoop(text, l) ==
  IF isNumber(<<peekChar(text, l)>>) THEN readNumberLoop(text, readChar(text, l)) ELSE l

readNumber(text, l) == SliceTo(text, l.position, readNumberLoop(text, l))

readTokenType(text, l) ==
  IF isSignedNumber(text, l) THEN readNumber(text, l)
  ELSE [lexer |-> l, value |-> <<l.char>>]

\* skipWhitespace without its fourth comparison, this.char === '\r'.
RECURSIVE skipWhitespaceKeepingCR(_, _)
skipWhitespaceKeepingCR(text, l) ==
  IF l.char \in {" ", "\n", "\t"}
  THEN skipWhitespaceKeepingCR(text,
         readChar(text, [l EXCEPT !.line = IF l.char = "\n" THEN @ + 1 ELSE @]))
  ELSE l

RECURSIVE skipWhitespace(_, _)
skipWhitespace(text, l) ==
  IF l.char \in {" ", "\n", "\t", "\r"}
  THEN skipWhitespace(text,
         readChar(text, [l EXCEPT !.line = IF l.char = "\n" THEN @ + 1 ELSE @]))
  ELSE l

\* newToken(tokenType ?? TokenType.Illegal, value) after the last readChar of
\* nextToken, with r the lexer and the value read.
Emit(text, r, tokenType) ==
  [lexer |-> readChar(text, r.lexer),
   token |-> <<IF tokenType = undefined THEN "Illegal" ELSE tokenType, r.value>>]

ComparationToken(text, r) == Emit(text, r, TokenString(r.value))

NumberToken(text, r) == Emit(text, r, IF r.value = <<>> THEN "Illegal" ELSE "Number")

\* Lexer.nextToken past skipWhitespace, the lexer being w.
TokenAt(text, w) ==
  IF TokenString(<<w.char>>) \in ComparationSymbols
  THEN ComparationToken(text, readComparation(text, w))
  ELSE IF TokenString(<<w.char>>) # undefined
  THEN Emit(text, readTokenType(text, w),
            IF isSignedNumber(text, w) THEN "Number" ELSE TokenString(<<w.char>>))
  ELSE IF isNumber(<<w.char>>)
  THEN NumberToken(text, readNumber(text, w))
  ELSE Emit(text, [lexer |-> w, value |-> <<w.char>>], undefined)

\* Lexer.nextToken: the lexer after the call and the token it returns, a
\* pair <<type, value>> (Token[0] and Token[1] of the source).
nextToken(text, l) == TokenAt(text, skipWhitespace(text, l))

\* ------------------------------------------------------------ number tree
\* An Operation [apply, symbol, priority]: the symbol names the two functions.
sum == [symbol |-> "+", priority |-> 0]
sub == [symbol |-> "-", priority |-> 0]
mul == [symbol |-> "*", priority |-> 1]
div == [symbol |-> "/", priority |-> 1]

\* o[0](b, a): the operands in the other order.
OperationApplySwapped(o, a, b) ==
  CASE o.symbol = "+" -> Plus(b, a)
    [] o.symbol = "-" -> Minus(b, a)
    [] o.symbol = "*" -> Times(b, a)
    [] o.symbol = "/" -> Divide(b, a)

\* o[0](a, b)
OperationApply(o, a, b) ==
  CASE o.symbol = "+" -> Plus(a, b)
    [] o.symbol = "-" -> Minus(a, b)
    [] o.symbol = "*" -> Times(a, b)
    [] o.symbol = "/" -> Divide(a, b)

\* o[1](a, b): `${a} + ${b}` and its three siblings
OperationString(o, a, b) == a \o <<" ", o.symbol, " ">> \o b

\* A Number [number, string, operationPriority, left, right]: a leaf keeps the
\* value its two closures capture and has no children (null, null); a compound
\* keeps the operation and the two children its closures capture.
null == [null |-> TRUE]

identity(a) == [operationPriority |-> -1, value |-> a, left |-> null, right |-> null]

\* compound with a in both child slots: [..., o[2], a, a].
compoundSharingLeft(a, o, b) ==
  [operationPriority |-> o.priority, operation |-> o, left |-> a, right |-> a]

compound(a, o, b) ==
  [operationPriority |-> o.priority, operation |-> o, left |-> a, right |-> b]

compoundFromValues(a, o, b) == compound(identity(a), o, identity(b))

\* get(num): num[0]()
RECURSIVE get(_)
get(num) ==
  IF num.operationPriority = -1 THEN num.value
  ELSE OperationApply(num.operation, get(num.left), get(num.right))

\* getLevel with the right subtree's nodes before the left subtree's.
RECURSIVE getLevelRightToLeft(_, _)
getLevelRightToLeft(num, level) ==
  IF num = null THEN <<>>
  ELSE IF level <= 0 THEN <<num>>
  ELSE getLevelRightToLeft(num.right, level - 1) \o getLevelRightToLeft(num.left, level - 1)

\* getLevel(num, level)
RECURSIVE getLevel(_, _)
getLevel(num, level) ==
  IF num = null THEN <<>>
  ELSE IF level <= 0 THEN <<num>>
  ELSE getLevel(num.left, level - 1) \o getLevel(num.right, level - 1)

\* Math.max(a, b)
Max(a, b) == IF a >= b THEN a ELSE b

\* Math.min(a, b)
Min(a, b) == IF a <= b THEN a ELSE b

\* getDepth with Math.min where the source has Math.max.
RECURSIVE getDepthOfNearest(_, _)
getDepthOfNearest(num, level) ==
  IF num = null THEN level
  ELSE Min(getDepthOfNearest(num.left, level + 1), getDepthOfNearest(num.right, level + 1))

\* getDepth(num, level); the default of level is -1
RECURSIVE getDepth(_, _)
getDepth(num, level) ==
  IF num = null THEN level
  ELSE Max(getDepth(num.left, level + 1), getDepth(num.right, level + 1))

\* numToString(num): num[1]()
RECURSIVE numToString(_)
numToString(num) ==
  IF num.operationPriority = -1 THEN NumberToString(num.value)
  ELSE LET a == num.left
           b == num.right
           o == num.operation
       IN  IF b.operationPriority # -1 /\ b.operationPriority < o.priority
           THEN OperationString(o, numToString(a), <<"(">> \o numToString(b) \o <<")">>)
           ELSE IF a.operationPriority # -1 /\ a.operationPriority < o.priority
           THEN OperationString(o, <<"(">> \o numToString(a) \o <<")">>, numToString(b))
           ELSE OperationString(o, numToString(a), numToString(b))

\* ------------------------------------------------------------ parser
\* `undefined` where a Number is expected.
undefinedNumber == [undefined |-> TRUE]
noOperation == [symbol |-> "", priority |-> -1]

\* Operations.get(type) ?? sum: a lookup that never comes back empty.
OperationsOrSum(type) ==
  CASE type = "+" -> sum
    [] type = "-" -> sub
    [] type = "*" -> mul
    [] type = "/" -> div
    [] OTHER -> sum

\* Operations.get(type)
Operations(type) ==
  CASE type = "+" -> sum
    [] type = "-" -> sub
    [] type = "*" -> mul
    [] type = "/" -> div
    [] OTHER -> noOperation

\* nextOperation && nextOperation[2] >= operation[2]
BindsTighterOrEqual(nextOperation, operation) ==
  nextOperation # noOperation /\ nextOperation.priority >= operation.priority

\* nextOperation && nextOperation[2] > operation[2]
BindsTighter(nextOperation, operation) ==
  nextOperation # noOperation /\ nextOperation.priority > operation.priority

\* GroupDelimiters.get(value)
GroupDelimiters(value) ==
  IF value = <<"(">> THEN ")"
  ELSE IF value = <<"[">> THEN "]"
  ELSE IF value = <<"{">> THEN "}"
  ELSE undefined

\* Array.from(GroupDelimiters.keys()).includes(value)
IsGroupStart(value) == value \in {<<"(">>, <<"[">>, <<"{">>}

\* Parser.parseNumber on the token tk
parseNumber(tk) == identity(ToNumber(tk[2]))

\* The fields of a Lexer and of a Parser before their constructors have run.
NoLexer == [position |-> 0, readPosition |-> 0, char |-> "NUL", line |-> 0]
NoToken == <<"Illegal", <<>>>>

\* One active call: the function, where it stands, and its locals.
Frame(fn, pc, lastArg) ==
  [fn |-> fn, pc |-> pc, last |-> lastArg, operation |-> noOperation,
   delimiter |-> undefined, groupNum |-> undefinedNumber]

Top == stack[Len(stack)]
Pop == SubSeq(stack, 1, Len(stack) - 1)
SetTop(f) == [stack EXCEPT ![Len(stack)] = f]
At(fn, pc) == status = "running" /\ stack # <<>> /\ Top.fn = fn /\ Top.pc = pc

\* Parser.nextToken: token and peekToken move on by one token of the lexer,
\* n being what Lexer.nextToken gives.
AdvanceTo(n) ==
  /\ token' = peekToken
  /\ peekToken' = n.token
  /\ lexer' = n.lexer

Advance == AdvanceTo(nextToken(input, lexer))

Throw ==
  /\ status' = "threw"
  /\ stack' = <<>>
  /\ UNCHANGED <<lexer, token, peekToken, last, ret>>

\* A call returns v to its caller.
Return(v) ==
  /\ stack' = Pop
  /\ ret' = v

\* new Parser(new Lexer(input))
Construct ==
  /\ status = "new"
  /\ \E n1 \in {nextToken(input, NewLexer(input))} :
       \E n2 \in {nextToken(input, n1.lexer)} :
         /\ lexer' = n2.lexer
         /\ token' = n1.token
         /\ peekToken' = n2.token
  /\ last' = undefinedNumber
  /\ stack' = <<Frame("parse", "loop", undefinedNumber)>>
  /\ status' = "running"
  /\ UNCHANGED <<expr, input, tokens, ret, app>>

\* Parser.parse, from the head of its loop to the call of parseValue or to its end.
parse ==
  /\ At("parse", "loop")
  /\ IF token[1] = "EOF"
     THEN IF last = undefinedNumber
          THEN Throw
          ELSE /\ status' = "returned"
               /\ Return(last)
               /\ UNCHANGED <<lexer, token, peekToken, last>>
     ELSE /\ stack' = Append(SetTop([Top EXCEPT !.pc = "assign"]),
                             Frame("parseValue", "enter", undefinedNumber))
          /\ UNCHANGED <<lexer, token, peekToken, last, ret, status>>
  /\ UNCHANGED <<expr, input, tokens, app>>

\* Parser.parse: this.last = <the value parseValue returned>; this.nextToken()
parseAssign ==
  /\ At("parse", "assign")
  /\ last' = ret
  /\ Advance
  /\ stack' = SetTop([Top EXCEPT !.pc = "loop"])
  /\ UNCHANGED <<expr, input, tokens, ret, status, app>>

\* Parser.parseValue: a tail call of parseGroup or of parseExpression(this.last)
parseValue ==
  /\ At("parseValue", "enter")
  /\ stack' = SetTop(IF IsGroupStart(token[2])
                     THEN Frame("parseGroup", "enter", undefinedNumber)
                     ELSE Frame("parseExpression", "enter", last))
  /\ UNCHANGED <<expr, input, tokens, lexer, token, peekToken, last, ret, status, app>>

\* Parser.parseExpression from its entry to its first call or to its return.
\* The call parseExpression(undefined) of line 106 returns parseNumber() at once
\* and is taken in the same step.  n is the token the first this.nextToken()
\* reads into peekToken.
parseExpression ==
  /\ At("parseExpression", "enter")
  /\ IF Top.last = undefinedNumber
     THEN /\ Return(parseNumber(token))
          /\ UNCHANGED <<lexer, token, peekToken, last, status>>
     ELSE IF Operations(token[1]) = noOperation
     THEN Throw
     ELSE \E operation \in {Operations(token[1])}, n \in {nextToken(input, lexer)} :
       IF IsGroupStart(peekToken[2])
       THEN /\ AdvanceTo(n)
            /\ stack' = Append(SetTop([Top EXCEPT !.pc = "right", !.operation = operation]),
                               Frame("parseGroup", "enter", undefinedNumber))
            /\ UNCHANGED <<last, ret, status>>
       ELSE IF BindsTighter(Operations(n.token[1]), operation)
       THEN /\ token' = n.token
            /\ \E m \in {nextToken(input, n.lexer)} :
                 /\ peekToken' = m.token
                 /\ lexer' = m.lexer
            /\ stack' = Append(SetTop([Top EXCEPT !.pc = "right", !.operation = operation]),
                               Frame("parseExpression", "enter", parseNumber(peekToken)))
            /\ UNCHANGED <<last, ret, status>>
       ELSE /\ AdvanceTo(n)
            /\ Return(compound(Top.last, operation, parseNumber(peekToken)))
            /\ UNCHANGED <<last, status>>
  /\ UNCHANGED <<expr, input, tokens, app>>

\* Parser.parseExpression: return compound(last, operation, <the right operand
\* parseGroup or parseExpression returned>)
parseExpressionReturn ==
  /\ At("parseExpression", "right")
  /\ Return(compound(Top.last, Top.operation, ret))
  /\ UNCHANGED <<expr, input, tokens, lexer, token, peekToken, last, status, app>>

\* Parser.parseGroup from its entry to the head of its loop.
parseGroup ==
  /\ At("parseGroup", "enter")
  /\ LET delimiter == GroupDelimiters(token[2])
     IN  IF delimiter = undefined
         THEN Throw
         ELSE /\ Advance
              /\ stack' = SetTop([Top EXCEPT !.pc = "loop", !.delimiter = delimiter])
              /\ UNCHANGED <<last, ret, status>>
  /\ UNCHANGED <<expr, input, tokens, app>>

\* Parser.parseGroup, from the head of its loop to the call of parseExpression
\* or, past the loop, to its end.
parseGroupLoop ==
  /\ At("parseGroup", "loop")
  /\ IF token[2] = <<Top.delimiter>>
     THEN IF Top.groupNum = undefinedNumber
          THEN Throw
          ELSE /\ Return(Top.groupNum)
               /\ UNCHANGED <<lexer, token, peekToken, last, status>>
     ELSE /\ stack' = Append(SetTop([Top EXCEPT !.pc = "assign"]),
                             Frame("parseExpression", "enter", Top.groupNum))
          /\ UNCHANGED <<lexer, token, peekToken, last, ret, status>>
  /\ UNCHANGED <<expr, input, tokens, app>>

\* Parser.parseGroup: groupNum = <the value parseExpression returned>; this.nextToken()
parseGroupAssign ==
  /\ At("parseGroup", "assign")
  /\ Advance
  /\ stack' = SetTop([Top EXCEPT !.pc = "loop", !.groupNum = ret])
  /\ UNCHANGED <<expr, input, tokens, last, ret, status, app>>

\* ------------------------------------------------------------ fixtures
\* Every string over `alphabet` of at most n characters.
Strings(alphabet, n) == UNION {[1..k -> alphabet] : k \in 0..n}

TextAlphabet == {"1", "+", "*", "(", ")", "]", " "}
WhiteSpaces == {" ", "\t", "\n", "\r"}
LexAlphabet == {"1", "+", "-", " ", "\n", "(", "=", "<", ">", "."}

Texts == Strings(TextAlphabet, MaxLen) \cup Strings(WhiteSpaces, MaxLen)

\* Inputs the specification and the tests name, longer than MaxLexLen.
LexExamples ==
  { <<"1", "0", " ", "+", " ", "-", "1", "0">>,
    <<"1", "0", " ", "-", " ", "1", "0">>,
    <<"1", "0", "-", " ", " ", "5">>,
    <<"1", "0", " ", "-", "5">>,
    <<"1", "0", " ", "+", " ", "(", "-", "1", "0", ")">>,
    <<"1", "4", ".", "7", "4", "2">>,
    <<"1", "~", "1">>,
    <<"~", "=", " ", "~">> }

LexTexts == Strings(LexAlphabet, MaxLexLen) \cup LexExamples

\* A written expression is a sequence of items, each a string: number
\* literals, the four operators and group delimiters, as a person writes an
\* expression of the grammar  expression ::= operand (operator operand)*,
\* operand ::= literal | open expression close.  "#" stands for a literal
\* until the literals are numbered 1, 2, 3, ... from the left.
OperatorChars == {"+", "-", "*", "/"}
Opens == <<"(", "[", "{">>
OpenAt(level, style) == Opens[((level + style) % 3) + 1]
CloseAt(level, style) == GroupDelimiters(<<OpenAt(level, style)>>)

RECURSIVE Written(_, _, _)
RECURSIVE WrittenOperand(_, _, _)
WrittenOperand(size, level, style) ==
  IF size = 1 THEN {<< <<"#">> >>}
  ELSE LET inside == Written(size - 1, level + 1, style)
       IN  { << <<OpenAt(level, style)>> >> \o e \o << <<CloseAt(level, style)>> >> :
               e \in inside }

Written(size, level, style) ==
  WrittenOperand(size, level, style) \cup
  UNION { LET lefts == Written(k, level, style)
              rights == WrittenOperand(size - k, level, style)
          IN  { e \o << <<o>> >> \o x : e \in lefts, o \in OperatorChars, x \in rights } :
          k \in 1..(size - 1) }

RECURSIVE Numbered(_, _)
Numbered(items, next) ==
  IF items = <<>> THEN <<>>
  ELSE IF Head(items) = <<"#">>
       THEN <<NatToString(next)>> \o Numbered(Tail(items), next + 1)
       ELSE <<Head(items)>> \o Numbered(Tail(items), next)

WrittenExpressions ==
  UNION { { Numbered(e, 1) : e \in Written(size, 0, style) } :
            size \in 1..MaxSize, style \in 0..2 }

\* The text of a written expression: its items, one space between two items or none.
RECURSIVE Join(_, _)
Join(items, sep) ==
  IF items = <<>> THEN <<>>
  ELSE IF Len(items) = 1 THEN items[1]
  ELSE items[1] \o sep \o Join(Tail(items), sep)

TextOf(items, spaced) == Join(items, IF spaced THEN <<" ">> ELSE <<>>)

\* The values and operations the constructors of a Number tree are called with.
NumberValues == {-1, 2}
OperationSet == {sum, sub, mul, div}

RECURSIVE LeafCount(_)
LeafCount(num) ==
  IF num.operationPriority = -1 THEN 1 ELSE LeafCount(num.left) + LeafCount(num.right)

RECURSIVE LeafTotal(_)
LeafTotal(nums) == IF nums = <<>> THEN 0 ELSE LeafCount(Head(nums)) + LeafTotal(Tail(nums))

\* The trees InsertNumber hands to setNumber: a literal, and chains of one
\* operation up to MaxDepth deep.
RECURSIVE Chain(_, _)
Chain(d, o) ==
  IF d = 0 THEN identity(Num(0)) ELSE compound(Chain(d - 1, o), o, identity(Num(d)))

AppNumbers == {Chain(d, o) : d \in 0..MaxDepth, o \in OperationSet}

\* ------------------------------------------------------------ specifications
\* No App is mounted.
NoApp == [mounted |-> FALSE]

Fresh ==
  /\ lexer = NoLexer
  /\ tokens = <<>>
  /\ token = NoToken
  /\ peekToken = NoToken
  /\ last = undefinedNumber
  /\ stack = <<>>
  /\ ret = undefinedNumber
  /\ app = NoApp

\* A text, free or written from an expression, about to be parsed.
Init ==
  /\ \/ \E t \in Texts :
          /\ expr = [kind |-> "text", of |-> t, spaced |-> FALSE]
          /\ input = t
     \/ \E e \in WrittenExpressions, spaced \in BOOLEAN :
          /\ expr = [kind |-> "written", of |-> e, spaced |-> spaced]
          /\ input = TextOf(e, spaced)
  /\ status = "new"
  /\ Fresh

Next ==
  \/ Construct
  \/ parse
  \/ parseAssign
  \/ parseValue
  \/ parseExpression
  \/ parseExpressionReturn
  \/ parseGroup
  \/ parseGroupLoop
  \/ parseGroupAssign

Spec == Init /\ [][Next]_vars

\* Number trees are built with the constructors (expr.of holds the Numbers
\* built and not yet used as an operand, oldest first); one tree alone is
\* rendered, and its text parsed.
Identity ==
  /\ status = "tree"
  /\ LeafTotal(expr.of) < MaxLeaves
  /\ \E v \in NumberValues : expr' = [expr EXCEPT !.of = Append(@, identity(Num(v)))]
  /\ UNCHANGED <<input, lexer, tokens, token, peekToken, last, stack, ret, status, app>>

Compound ==
  /\ status = "tree"
  /\ Len(expr.of) >= 2
  /\ \E o \in OperationSet :
       LET n == Len(expr.of)
       IN  expr' = [expr EXCEPT !.of = Append(SubSeq(@, 1, n - 2), compound(@[n - 1], o, @[n]))]
  /\ UNCHANGED <<input, lexer, tokens, token, peekToken, last, stack, ret, status, app>>

CompoundFromValues ==
  /\ status = "tree"
  /\ LeafTotal(expr.of) + 2 <= MaxLeaves
  /\ \E a \in NumberValues, o \in OperationSet, b \in NumberValues :
       expr' = [expr EXCEPT !.of = Append(@, compoundFromValues(Num(a), o, Num(b)))]
  /\ UNCHANGED <<input, lexer, tokens, token, peekToken, last, stack, ret, status, app>>

NumToString ==
  /\ status = "tree"
  /\ Len(expr.of) = 1
  /\ input' = numToString(expr.of[1])
  /\ status' = "new"
  /\ UNCHANGED <<expr, lexer, tokens, token, peekToken, last, stack, ret, app>>

InitNumber ==
  /\ expr = [kind |-> "tree", of |-> <<>>, spaced |-> FALSE]
  /\ input = <<>>
  /\ status = "tree"
  /\ Fresh

NextNumber ==
  \/ Identity
  \/ Compound
  \/ CompoundFromValues
  \/ NumToString
  \/ Construct
  \/ parse
  \/ parseAssign
  \/ parseValue
  \/ parseExpression
  \/ parseExpressionReturn
  \/ parseGroup
  \/ parseGroupLoop
  \/ parseGroupAssign

SpecNumber == InitNumber /\ [][NextNumber]_vars

\* A client of the Number tree alone: one tree is built with the constructors
\* and then asked for a level, for its depth or for its value, as the tests of
\* the number module do; ret keeps the arguments and the value returned.
GetLevel ==
  /\ status = "tree"
  /\ Len(expr.of) = 1
  /\ \E level \in 0..MaxLevel :
       ret' = [level |-> level, result |-> getLevel(expr.of[1], level)]
  /\ status' = "queried"
  /\ UNCHANGED <<expr, input, lexer, tokens, token, peekToken, last, stack, app>>

\* getDepth(num) is getDepth(num, -1); a recursive call passes other levels
\* and, below a leaf, null.
GetDepth ==
  /\ status = "tree"
  /\ Len(expr.of) = 1
  /\ \E num \in {expr.of[1], null}, level \in {-1, 0} :
       ret' = [num |-> num, level |-> level, result |-> getDepth(num, level)]
  /\ status' = "measured"
  /\ UNCHANGED <<expr, input, lexer, tokens, token, peekToken, last, stack, app>>

Get ==
  /\ status = "tree"
  /\ Len(expr.of) = 1
  /\ ret' = [result |-> get(expr.of[1])]
  /\ status' = "evaluated"
  /\ UNCHANGED <<expr, input, lexer, tokens, token, peekToken, last, stack, app>>

NextTree ==
  \/ Identity
  \/ Compound
  \/ CompoundFromValues
  \/ GetLevel
  \/ GetDepth
  \/ Get

SpecTree == InitNumber /\ [][NextTree]_vars

\* A client of the Lexer alone, collecting tokens as the tests of the lexer do.
NumEOF == Cardinality({i \in 1..Len(tokens) : tokens[i][1] = "EOF"})

NextToken ==
  /\ status = "lexing"
  /\ NumEOF < MaxEOF
  /\ \E n \in {nextToken(input, lexer)} :
       /\ lexer' = n.lexer
       /\ tokens' = Append(tokens, n.token)
  /\ UNCHANGED <<expr, input, token, peekToken, last, stack, ret, status, app>>

InitLexer ==
  /\ \E t \in LexTexts :
       /\ expr = [kind |-> "text", of |-> t, spaced |-> FALSE]
       /\ input = t
       /\ lexer = NewLexer(t)
  /\ tokens = <<>>
  /\ token = NoToken
  /\ peekToken = NoToken
  /\ last = undefinedNumber
  /\ stack = <<>>
  /\ ret = undefinedNumber
  /\ status = "lexing"
  /\ app = NoApp

NextLexer == NextToken

SpecLexer == InitLexer /\ [][NextLexer]_vars

\* ------------------------------------------------------------ App
\* The two effects run after a render in which one of their dependencies
\* differs from its value at their last run.
solvingEffectPending == app.solving # app.solvingDep
stepEffectPending == app.step # app.stepDep
EffectsPending == solvingEffectPending \/ stepEffectPending

\* clearInterval(id)
clearInterval(intervals, id) == intervals \ {id}

\* handleSetNum(num), called by InsertNumber, which is disabled while solving.
handleSetNum ==
  /\ app # NoApp
  /\ ~EffectsPending
  /\ ~app.solving
  /\ \E n \in AppNumbers :
       app' = [app EXCEPT !.step = getDepth(n, -1), !.num = n]
  /\ UNCHANGED <<expr, input, lexer, tokens, token, peekToken, last, stack, ret, status>>

\* onClick of the button Resolver: setSolving(true)
Resolver ==
  /\ app # NoApp
  /\ ~EffectsPending
  /\ app.handles < MaxSolves
  /\ app' = [app EXCEPT !.solving = TRUE]
  /\ UNCHANGED <<expr, input, lexer, tokens, token, peekToken, last, stack, ret, status>>

\* The callback of a live interval: setStep(step => step - 1)
Tick ==
  /\ app # NoApp
  /\ ~EffectsPending
  /\ app.intervals # {}
  /\ app.step > -MaxBelow
  /\ app' = [app EXCEPT !.step = @ - 1]
  /\ UNCHANGED <<expr, input, lexer, tokens, token, peekToken, last, stack, ret, status>>

\* useEffect(..., [solving]): the cleanup of its last run, if it left one, and
\* then the effect. The cleanup it leaves clears the id of the render it ran
\* in, not the interval it has just started.
solvingEffect ==
  /\ app # NoApp
  /\ solvingEffectPending
  /\ app' =
       IF ~app.solving
       THEN [app EXCEPT !.intervals = IF app.cleanup.set THEN clearInterval(@, app.cleanup.id) ELSE @,
                        !.cleanup = [set |-> FALSE, id |-> 0],
                        !.solvingDep = app.solving]
       ELSE [app EXCEPT !.intervals = (IF app.cleanup.set THEN clearInterval(@, app.cleanup.id) ELSE @)
                                        \cup {app.handles + 1},
                        !.step = getDepth(app.num, -1),
                        !.id = app.handles + 1,
                        !.handles = @ + 1,
                        !.cleanup = [set |-> TRUE, id |-> app.id],
                        !.solvingDep = app.solving]
  /\ UNCHANGED <<expr, input, lexer, tokens, token, peekToken, last, stack, ret, status>>

\* useEffect(..., [step])
stepEffect ==
  /\ app # NoApp
  /\ ~solvingEffectPending
  /\ stepEffectPending
  /\ app' =
       IF app.step <= 0
       THEN [app EXCEPT !.solving = FALSE,
                        !.intervals = clearInterval(@, app.id),
                        !.stepDep = app.step]
       ELSE [app EXCEPT !.stepDep = app.step]
  /\ UNCHANGED <<expr, input, lexer, tokens, token, peekToken, last, stack, ret, status>>

\* The App after its first render and the first run of its two effects:
\* neither changes the state (solving is false; step is 0, so setSolving(false)
\* and clearInterval(0) are called and do nothing).
InitApp ==
  /\ expr = [kind |-> "app", of |-> <<>>, spaced |-> FALSE]
  /\ input = <<>>
  /\ status = "mounted"
  /\ lexer = NoLexer
  /\ tokens = <<>>
  /\ token = NoToken
  /\ peekToken = NoToken
  /\ last = undefinedNumber
  /\ stack = <<>>
  /\ ret = undefinedNumber
  /\ app = [num |-> identity(Num(0)), solving |-> FALSE,
            step |-> getDepth(identity(Num(0)), -1), id |-> 0,
            intervals |-> {}, handles |-> 0,
            solvingDep |-> FALSE, stepDep |-> getDepth(identity(Num(0)), -1),
            cleanup |-> [set |-> FALSE, id |-> 0]]

NextApp ==
  \/ handleSetNum
  \/ Resolver
  \/ Tick
  \/ solvingEffect
  \/ stepEffect

SpecApp == InitApp /\ [][NextApp]_vars

\* ------------------------------------------------------------ properties
Terminated == status \in {"returned", "threw"}

\* a === b of two numbers that are not NaN (the two zeros are equal).
NumEq(a, b) == ~IsNaN(a) /\ ~IsNaN(b) /\ (a = b \/ (IsZero(a) /\ IsZero(b)))

\* The same outcome of a computation: both NaN, or equal numbers.
SameValue(a, b) == (IsNaN(a) /\ IsNaN(b)) \/ NumEq(a, b)

\* The rendering in which each child of a compound is wrapped on its own:
\* in parentheses if and only if it is a compound of strictly lower priority.
RECURSIVE RenderEachSide(_)
RECURSIVE WrapIfLower(_, _)
WrapIfLower(child, o) ==
  IF child.operationPriority # -1 /\ child.operationPriority < o.priority
  THEN <<"(">> \o RenderEachSide(child) \o <<")">>
  ELSE RenderEachSide(child)

RenderEachSide(num) ==
  IF num.operationPriority = -1 THEN NumberToString(num.value)
  ELSE OperationString(num.operation,
                       WrapIfLower(num.left, num.operation),
                       WrapIfLower(num.right, num.operation))

\* The value of a written expression under the standard hierarchy: a group is
\* one operand, * and / bind tighter than + and -, equal priorities associate
\* from the left.  Each operator returns the value and the index past what it read.
RECURSIVE StdSum(_, _)
RECURSIVE StdSumRest(_, _, _)
RECURSIVE StdTerm(_, _)
RECURSIVE StdTermRest(_, _, _)
RECURSIVE StdOperand(_, _)
StdOperand(items, i) ==
  IF IsGroupStart(items[i])
  THEN LET r == StdSum(items, i + 1) IN [v |-> r.v, i |-> r.i + 1]
  ELSE [v |-> Num(DigitsValue(items[i])), i |-> i + 1]

StdTermRest(items, acc, i) ==
  IF i <= Len(items) /\ items[i] \in {<<"*">>, <<"/">>}
  THEN LET r == StdOperand(items, i + 1)
       IN  StdTermRest(items, OperationApply(Operations(items[i][1]), acc, r.v), r.i)
  ELSE [v |-> acc, i |-> i]

StdTerm(items, i) == LET r == StdOperand(items, i) IN StdTermRest(items, r.v, r.i)

StdSumRest(items, acc, i) ==
  IF i <= Len(items) /\ items[i] \in {<<"+">>, <<"-">>}
  THEN LET r == StdTerm(items, i + 1)
       IN  StdSumRest(items, OperationApply(Operations(items[i][1]), acc, r.v), r.i)
  ELSE [v |-> acc, i |-> i]

StdSum(items, i) == LET r == StdTerm(items, i) IN StdSumRest(items, r.v, r.i)

StdValue(items) == StdSum(items, 1).v

GroupFree(items) ==
  \A i \in 1..Len(items) :
    items[i] \notin {<<"(">>, <<"[">>, <<"{">>, <<")">>, <<"]">>, <<"}">>}

\* A chain of literals joined by operators of one priority alone.
EqualPriorityChain(items) ==
  /\ GroupFree(items)
  /\ \A i, j \in 1..Len(items) :
       (i % 2 = 0 /\ j % 2 = 0) =>
         Operations(items[i][1]).priority = Operations(items[j][1]).priority

\* compound(...compound(compound(a, op1, b), op2, c)..., opn, z) of a chain.
RECURSIVE LeftNestedFrom(_, _, _)
LeftNestedFrom(items, acc, i) ==
  IF i > Len(items) THEN acc
  ELSE LeftNestedFrom(items,
         compound(acc, Operations(items[i][1]), identity(Num(DigitsValue(items[i + 1])))),
         i + 2)

LeftNested(items) == LeftNestedFrom(items, identity(Num(DigitsValue(items[1]))), 2)

\* C1: for every tree built with identity, compound and compoundFromValues
\* whose value is not NaN, parsing the text the tree renders to returns a tree
\* of the same value: evaluate(parse(render(tree))) == evaluate(tree).
C1_RoundTrip ==
  (expr.kind = "tree" /\ Terminated /\ ~IsNaN(get(expr.of[1])))
    => (status = "returned" /\ NumEq(get(ret), get(expr.of[1])))

\* C2: the text a compound renders to wraps a child in parentheses if and
\* only if the child is a compound of strictly lower priority than the parent
\* operation, the left child and the right child each on its own.
C2_RenderWrapsEachSide ==
  (expr.kind = "tree" /\ status # "tree") => input = RenderEachSide(expr.of[1])

\* C3: for every group-free chain of unsigned literals and operators, the
\* tree parse returns evaluates to the value of the standard hierarchy.
C3_ChainHierarchy ==
  (expr.kind = "written" /\ GroupFree(expr.of) /\ Terminated)
    => (status = "returned" /\ SameValue(get(ret), StdValue(expr.of)))

\* C4: for every well-formed input with groups, of any of the three delimiter
\* pairs and nested to any depth, the tree parse returns evaluates to the
\* standard value in which each group is one operand.
C4_GroupIsOperand ==
  (expr.kind = "written" /\ ~GroupFree(expr.of) /\ Terminated)
    => (status = "returned" /\ SameValue(get(ret), StdValue(expr.of)))

\* C5: for a chain of literals joined only by operators of equal priority,
\* of any length, parse returns the left-nested tree.
C5_LeftNested ==
  (expr.kind = "written" /\ EqualPriorityChain(expr.of) /\ Terminated)
    => (status = "returned" /\ ret = LeftNested(expr.of))

\* A chain of four literals of one priority has been parsed to its left-nested tree.
C5_Witness ==
  /\ expr.kind = "written"
  /\ EqualPriorityChain(expr.of)
  /\ Len(expr.of) = 7
  /\ status = "returned"
  /\ ret = LeftNested(expr.of)
  /\ ret.left.left.left = identity(Num(1))

\* Every token of a text, the first end-of-input token being the last.
RECURSIVE TokensFrom(_, _)
TokensFrom(text, l) ==
  LET n == nextToken(text, l)
  IN  IF n.token[1] = "EOF" THEN <<n.token>> ELSE <<n.token>> \o TokensFrom(text, n.lexer)

Tokenize(text) == TokensFrom(text, NewLexer(text))

\* An operand is expected at the start of the input, after an operator and
\* after a group-start delimiter; it is missing where the token there is
\* neither a number literal nor a group-start delimiter.
MissingOperandIn(tks) ==
  \E i \in 1..Len(tks) :
    /\ \/ i = 1
       \/ Operations(tks[i - 1][1]) # noOperation
       \/ IsGroupStart(tks[i - 1][2])
    /\ tks[i][1] # "Number"
    /\ ~IsGroupStart(tks[i][2])

\* C6: parse returns no tree for an input in which a token that is neither a
\* number literal nor a group-start delimiter stands where an operand is
\* expected, as in "+", "1 +" and ")".
C6_MissingOperandThrows ==
  MissingOperandIn(Tokenize(input)) => status # "returned"

WhiteSpaceOnly(text) == \A i \in 1..Len(text) : text[i] \in WhiteSpaces

\* C7: for the empty input and for an input of spaces, tabs, newlines and
\* carriage returns alone, the parser is built with the end-of-input token as
\* its current token and no value, and its one step is to raise the error: it
\* returns no tree.
C7_BlankInputThrows ==
  WhiteSpaceOnly(input) =>
    \/ status \in {"new", "threw"}
    \/ /\ status = "running"
       /\ token[1] = "EOF"
       /\ last = undefinedNumber
       /\ stack = <<Frame("parse", "loop", undefinedNumber)>>

\* parse has raised its error on an input of all four white-space characters.
C7_Witness ==
  /\ WhiteSpaceOnly(input)
  /\ Cardinality({input[i] : i \in 1..Len(input)}) = 4
  /\ status = "threw"

\* The group-start delimiters of a text that no later matching closing
\* delimiter closes, outermost first: a closing delimiter closes the innermost
\* open group if it is that group's, and no group otherwise.
RECURSIVE OpenGroups(_, _, _)
OpenGroups(text, i, opens) ==
  IF i > Len(text) THEN opens
  ELSE IF IsGroupStart(<<text[i]>>) THEN OpenGroups(text, i + 1, Append(opens, text[i]))
  ELSE IF opens # <<>> /\ text[i] = GroupDelimiters(<<opens[Len(opens)]>>)
  THEN OpenGroups(text, i + 1, SubSeq(opens, 1, Len(opens) - 1))
  ELSE OpenGroups(text, i + 1, opens)

\* C8: parse returns no tree for an input that ends before the closing
\* delimiter of a group it opens, as in "(", "(1 + 2" and "{10 * [2 + 3}".
C8_UnterminatedGroupThrows ==
  OpenGroups(input, 1, <<>>) # <<>> => status # "returned"

\* What one active call has left to do before the parser next reads a token
\* or the call ends, in steps.
FrameRank(f) ==
  CASE f.fn = "parse" /\ f.pc = "loop" -> 4
    [] f.fn = "parseValue" -> 2
    [] f.fn = "parseGroup" /\ f.pc = "loop" -> 3
    [] OTHER -> 1

RECURSIVE StackRank(_)
StackRank(frames) ==
  IF frames = <<>> THEN 0 ELSE FrameRank(Head(frames)) + StackRank(Tail(frames))

\* A bound on the steps parse has left: four for each character the lexer
\* has yet to read, the three tokens it may read at the end of the input
\* counting as one character each, and the steps of the active calls.
Rank ==
  IF status = "new" THEN 4 * (Len(input) + 4) + 5
  ELSE 4 * (Len(input) + 4 - lexer.readPosition) + StackRank(stack)

\* The guard of one of the parser's steps holds (what follows the guard in
\* each step is a choice among assignments, so the step can be taken).
CanStep ==
  \/ status = "new"
  \/ /\ status = "running"
     /\ stack # <<>>
     /\ <<Top.fn, Top.pc>> \in
          { <<"parse", "loop">>, <<"parse", "assign">>, <<"parseValue", "enter">>,
            <<"parseExpression", "enter">>, <<"parseExpression", "right">>,
            <<"parseGroup", "enter">>, <<"parseGroup", "loop">>, <<"parseGroup", "assign">> }

\* C9: parse terminates for every input: each step of the loops of parse and
\* of parseGroup and of the recursion of parseExpression lowers a bound that
\* never falls below zero (so the lexer is never asked for more than three
\* tokens at the end of the input), and until parse has returned a tree or
\* raised an error a next step exists.
C9_Terminates ==
  /\ [][Rank' < Rank]_vars
  /\ [](Rank >= 0 /\ (Terminated \/ CanStep))

\* parse has ended, by its error, after the loop of parseGroup read
\* end-of-input tokens inside a group the input never closes.
C9_Witness ==
  /\ status = "threw"
  /\ OpenGroups(input, 1, <<>>) # <<>>
  /\ Len(input) >= 3
  /\ lexer.readPosition = Len(input) + 4

\* C10: a "+" or "-" is lexed as the sign of a number literal if and only if
\* the character after it is a digit and the raw character before it is not a
\* digit; otherwise it is an operator token of its own.
C10_SignedLiteral ==
  status = "lexing" =>
    \A w \in {skipWhitespace(input, lexer)} :
      w.char \in {"+", "-"} =>
        \A t \in {nextToken(input, lexer).token} :
          IF peekChar(input, w) \in Digits /\ lastChar(input, w) \notin Digits
          THEN t[1] = "Number" /\ Len(t[2]) >= 2 /\ t[2][1] = w.char
          ELSE t = <<w.char, <<w.char>>>>

\* The index past the run of digits and points that starts at index i.
RECURSIVE DecimalRunEnd(_, _)
DecimalRunEnd(text, i) ==
  IF i < Len(text) /\ charAt(text, i) \in Digits \cup {"."}
  THEN DecimalRunEnd(text, i + 1)
  ELSE i

\* The whole run of digits and points at the lexer's position.
DecimalRun(text, w) == slice(text, w.position, DecimalRunEnd(text, w.position))

\* Digits with a single decimal point among them, as 14.742.
IsDecimalLiteral(run) ==
  /\ run # <<>>
  /\ run[1] \in Digits
  /\ run[Len(run)] \in Digits
  /\ Cardinality({i \in 1..Len(run) : run[i] = "."}) = 1

\* C11: where a run of digits with a single decimal point starts, nextToken
\* returns one number-literal token whose lexeme is the whole run.
C11_DecimalLiteralOneToken ==
  status = "lexing" =>
    \A w \in {skipWhitespace(input, lexer)} :
      (lastChar(input, w) \notin Digits \cup {"."} /\ IsDecimalLiteral(DecimalRun(input, w)))
        => nextToken(input, lexer).token = <<"Number", DecimalRun(input, w)>>

\* The newline characters among the first n characters of a text.
NewlinesBefore(text, n) ==
  Cardinality({i \in 1..Min(n, Len(text)) : text[i] = "\n"})

\* C12: after any sequence of nextToken calls getLine() is the number of
\* newline characters the lexer has read past (those before its position),
\* so after the end-of-input token it is the number of newlines of the input.
C12_LineCountsNewlines ==
  status = "lexing" => lexer.line = NewlinesBefore(input, lexer.position)

\* C13: once nextToken has returned an end-of-input token every later call
\* returns one too (the lexer stays at the end, so the call after the last
\* does as well), and on the empty input the first call returns it.
C13_EndOfInputForever ==
  status = "lexing" =>
    /\ \A i, j \in 1..Len(tokens) :
         (i < j /\ tokens[i][1] = "EOF") => tokens[j] = <<"EOF", <<"EOF">>>>
    /\ (input = <<>> /\ tokens # <<>>) => tokens[1][1] = "EOF"
    /\ NumEOF >= 1 => (lexer.char = "EOF" /\ nextToken(input, lexer).token[1] = "EOF")

\* Two end-of-input tokens have followed the tokens of an input.
C13_Witness ==
  /\ status = "lexing"
  /\ Len(tokens) >= 4
  /\ tokens[Len(tokens) - 1][1] = "EOF"
  /\ tokens[Len(tokens)][1] = "EOF"
  /\ tokens[1][1] # "EOF"

\* The node reached from num by the k-th path of `level` edges, the paths
\* counted from 0 in left-to-right order (left before right at every edge,
\* the edge nearest the root first); null where the path leaves the tree.
RECURSIVE NodeAt(_, _, _)
NodeAt(num, level, k) ==
  IF num = null THEN null
  ELSE IF level = 0 THEN num
  ELSE NodeAt(IF k \div (2 ^ (level - 1)) = 0 THEN num.left ELSE num.right,
              level - 1, k % (2 ^ (level - 1)))

IsNode(num) == num # null

NodesAt(num, level) ==
  SelectSeq([k \in 1..(2 ^ level) |-> NodeAt(num, level, k - 1)], IsNode)

IsLeaf(num) == num.left = null /\ num.right = null

\* C14: getLevel(tree, level), level >= 0, returns exactly the nodes `level`
\* edges below the root, in left-to-right order; it is empty exactly when
\* level is greater than getDepth(tree); and at level getDepth(tree) it holds
\* leaves only.
C14_LevelNodes ==
  status = "queried" =>
    /\ ret.result = NodesAt(expr.of[1], ret.level)
    /\ (ret.result = <<>>) <=> (ret.level > getDepth(expr.of[1], -1))
    /\ ret.level = getDepth(expr.of[1], -1) =>
         \A i \in 1..Len(ret.result) : IsLeaf(ret.result[i])

\* The second level of a tree whose root has a leaf on the left: a compound
\* and then a leaf, both from the right subtree.
C14_Witness ==
  /\ status = "queried"
  /\ ret.level = 2
  /\ ~IsLeaf(expr.of[1])
  /\ IsLeaf(expr.of[1].left)
  /\ Len(ret.result) = 2
  /\ ~IsLeaf(ret.result[1])
  /\ IsLeaf(ret.result[2])

\* The height of a tree in edges: the longest path from the root to a leaf.
RECURSIVE Height(_)
Height(num) ==
  IF IsLeaf(num) THEN 0
  ELSE 1 + (IF Height(num.left) >= Height(num.right) THEN Height(num.left)
            ELSE Height(num.right))

\* C15: getDepth(tree), the level defaulting to -1, is the height of the tree
\* in edges, 0 for a lone leaf and one more than the deeper child's for a
\* compound (from another level it is that much higher); getDepth(null, level)
\* is the level.
C15_DepthIsHeight ==
  status = "measured" =>
    /\ ret.num = null => ret.result = ret.level
    /\ ret.num # null => ret.result = ret.level + 1 + Height(ret.num)
    /\ (ret.num # null /\ ret.level = -1) =>
         /\ ret.result = Height(ret.num)
         /\ IsLeaf(ret.num) => ret.result = 0
         /\ ~IsLeaf(ret.num) =>
              ret.result = 1 + Max(getDepth(ret.num.left, -1), getDepth(ret.num.right, -1))

\* The depth of a tree whose two subtrees have different heights.
C15_Witness ==
  /\ status = "measured"
  /\ ret.num # null
  /\ ret.level = -1
  /\ ret.result = 3
  /\ Height(ret.num.left) = 0

\* The nodes of a tree, the root included.
RECURSIVE Nodes(_)
Nodes(num) ==
  IF num = null THEN {} ELSE {num} \cup Nodes(num.left) \cup Nodes(num.right)

Symbols(num) == {n.operation.symbol : n \in {m \in Nodes(num) : ~IsLeaf(m)}}

\* The value of a tree of integer leaves without a division, in integers.
RECURSIVE IntValue(_)
IntValue(num) ==
  IF IsLeaf(num) THEN num.value.s * num.value.n
  ELSE CASE num.operation.symbol = "+" -> IntValue(num.left) + IntValue(num.right)
         [] num.operation.symbol = "-" -> IntValue(num.left) - IntValue(num.right)
         [] num.operation.symbol = "*" -> IntValue(num.left) * IntValue(num.right)

\* q is the quotient a / b of two doubles: a * b of infinite size or NaN as
\* IEEE 754 has it, else the number that multiplied by b gives a.
IsQuotient(q, a, b) ==
  IF IsNaN(a) \/ IsNaN(b) THEN IsNaN(q)
  ELSE IF a.k = "inf" /\ b.k = "inf" THEN IsNaN(q)
  ELSE IF IsZero(a) /\ IsZero(b) THEN IsNaN(q)
  ELSE IF a.k = "inf" \/ IsZero(b) THEN q = Infinity(a.s * b.s)
  ELSE IF b.k = "inf" THEN IsZero(q) /\ q.s = a.s * b.s
  ELSE q.k = "fin" /\ q.s = a.s * b.s /\ q.n * b.n * a.d = a.n * q.d * b.d

\* C16: get returns the stored value of a leaf; of a compound it returns the
\* operation applied to the value of the left child, as first argument, and
\* the value of the right child, as second; sum, sub, mul and div are a + b,
\* a - b, a * b and a / b; and the value of a tree is a function of the tree.
C16_GetEvaluates ==
  status = "evaluated" =>
    /\ ret.result = get(expr.of[1])
    /\ \A n \in Nodes(expr.of[1]) :
         /\ IsLeaf(n) => get(n) = n.value
         /\ ~IsLeaf(n) =>
              /\ get(n) = OperationApply(n.operation, get(n.left), get(n.right))
              /\ n.operation = sum => get(n) = Plus(get(n.left), get(n.right))
              /\ n.operation = sub => get(n) = Minus(get(n.left), get(n.right))
              /\ n.operation = mul => get(n) = Times(get(n.left), get(n.right))
              /\ n.operation = div => IsQuotient(get(n), get(n.left), get(n.right))
    /\ "/" \notin Symbols(expr.of[1]) => NumEq(ret.result, Num(IntValue(expr.of[1])))

\* A quotient of two compounds is evaluated: (2 * -1) / (2 + 2), for one.
C16_Witness ==
  /\ status = "evaluated"
  /\ ~IsLeaf(expr.of[1])
  /\ expr.of[1].operation = div
  /\ ~IsLeaf(expr.of[1].left)
  /\ ~IsLeaf(expr.of[1].right)
  /\ ret.result = Fin(-1, 1, 2)

\* The leaves of a tree, left to right.
RECURSIVE Leaves(_)
Leaves(num) ==
  IF num = null THEN <<>>
  ELSE IF IsLeaf(num) THEN <<num>>
  ELSE Leaves(num.left) \o Leaves(num.right)

NoDuplicates(seq) == \A i, j \in 1..Len(seq) : seq[i] = seq[j] => i = j

\* C17: in every tree parse returns, a node has priority -1 exactly when it
\* is a leaf with both children null; every other node is a compound with two
\* children, neither null, and the priority, 0 or 1, of its operation; and no
\* node is the child of two parents: a node under two parents would put its
\* leaves twice among the leaves of the tree, which shows where the literals
\* of the input are pairwise different.
C17_ReturnedTreeShape ==
  status = "returned" =>
    /\ \A n \in Nodes(ret) :
         /\ n.operationPriority = -1 <=> IsLeaf(n)
         /\ ~IsLeaf(n) =>
              /\ n.left # null
              /\ n.right # null
              /\ n.operation \in OperationSet
              /\ n.operationPriority = n.operation.priority
              /\ n.operationPriority \in {0, 1}
    /\ expr.kind = "written" => NoDuplicates(Leaves(ret))

\* A tree of five leaves, a compound on either side of the root, is returned.
C17_Witness ==
  /\ status = "returned"
  /\ expr.kind = "written"
  /\ Len(Leaves(ret)) = 5
  /\ ~IsLeaf(ret.left)
  /\ ~IsLeaf(ret.right)

\* The end of the longest run of comparison characters that starts at i.
RECURSIVE ComparationRunEnd(_, _)
ComparationRunEnd(text, i) ==
  IF i < Len(text) /\ charAt(text, i) \in {"=", "<", ">", "~"}
  THEN ComparationRunEnd(text, i + 1) ELSE i

ComparationRun(text, w) == slice(text, w.position, ComparationRunEnd(text, w.position))

\* The kind a run of comparison characters matches exactly, else Illegal.
ComparationKind(run) ==
  CASE run = <<"=">> -> "="
    [] run = <<"<">> -> "<"
    [] run = <<">">> -> ">"
    [] run = <<"~">> -> "~"
    [] run = <<"<", "=">> -> "<="
    [] run = <<">", "=">> -> ">="
    [] OTHER -> "Illegal"

\* C18: where the next token starts at a comparison character, nextToken
\* returns the longest run of consecutive comparison characters as one token,
\* of the kind the run matches exactly and else Illegal, and leaves the lexer
\* right after the run.
C18_ComparationRun ==
  status = "lexing" =>
    \A w \in {skipWhitespace(input, lexer)} :
      (w.position < Len(input) /\ w.char \in {"=", "<", ">", "~"}) =>
        \A n \in {nextToken(input, lexer)} :
          /\ n.token = <<ComparationKind(ComparationRun(input, w)), ComparationRun(input, w)>>
          /\ n.lexer.position = ComparationRunEnd(input, w.position)

\* An unmatched run, `=>` or `><` or `==`, has been returned as one Illegal
\* token and, past a space, a comparison character comes next.
C18_Witness ==
  /\ status = "lexing"
  /\ Len(tokens) = 1
  /\ tokens[1] \in {<<"Illegal", <<"=", ">">>>>, <<"Illegal", <<">", "<">>>>,
                    <<"Illegal", <<"=", "=">>>>}
  /\ skipWhitespace(input, lexer).char \in {"=", "<", ">", "~"}

\* The kinds of a sequence of tokens.
Kinds(tks) == [i \in 1..Len(tks) |-> tks[i][1]]

\* C19: the inputs `10-  5` and `10 -5` yield different sequences of token
\* kinds: the place of the white space around `-` decides whether `-` is an
\* operator token or the sign of the number literal that follows.
C19_SpacingChangesKinds ==
  (status = "lexing" /\ input = <<"1", "0", " ", "-", "5">> /\ NumEOF = 1) =>
    Kinds(tokens) # Kinds(Tokenize(<<"1", "0", "-", " ", " ", "5">>))

\* C20: every number-literal token nextToken returns has a lexeme that
\* passes isNumber, so that the leaf parseNumber builds from it holds a
\* number that is not NaN.
C20_NumberLexemeIsNumeric ==
  status = "lexing" =>
    \A i \in 1..Len(tokens) :
      tokens[i][1] = "Number" =>
        /\ isNumber(tokens[i][2])
        /\ ~IsNaN(ToNumber(tokens[i][2]))

\* C21: in every reachable state of the App the step is between 0 and the
\* depth d of its tree, a lone literal (d = 0) included: a solving run counts
\* the step down from d by one per tick and ends, solving false and the
\* interval cleared, when the step is 0.
C21_StepWithinDepth ==
  app # NoApp =>
    /\ 0 <= app.step
    /\ app.step <= getDepth(app.num, -1)
    /\ (~app.solving /\ ~EffectsPending) => app.intervals = {}

====
